---- MODULE Spec2Model ----
(***************************************************************************)
(* The Brainfuck pipeline of brainfuck.cpp: main reads a program, compiles *)
(* it to bytecode (compile_to_bytecode), runs optimize_bytecode 7 times    *)
(* and interprets the result (interpret_bytecode).                         *)
(*                                                                         *)
(* Source text is a sequence of one-character strings; source and bytecode *)
(* indices are 0-based as in the C++ code, so element i of a vector v is   *)
(* v[i + 1] here.  The model covers the execute mode of main (no -c).      *)
(***************************************************************************)
EXTENDS Integers, Sequences, FiniteSets, TLC

VARIABLES
    program,      \* main: std::string program (the text read_program returned)
    phase,        \* main's position: "compile", "optimize", "run", "exit", "crashed"
    bytecode,     \* main: std::vector<Instruction> bytecode
    i,            \* main: the optimisation loop's counter
    exit_code,    \* the status the process exits with once phase = "exit"
    err,          \* what compile_to_bytecode wrote to std::cerr
    loop_starts,  \* interpret_bytecode: precomputed jump table
    memory,       \* interpret_bytecode: the tape (cells never stored read 0)
    ptr,          \* interpret_bytecode: data pointer (size_t)
    pc,           \* interpret_bytecode: program counter
    out,          \* bytes written to std::cout
    input,        \* bytes std::cin has delivered so far
    eof,          \* std::cin has reached end of file
    steps,        \* number of interpreter iterations taken (bounded by MaxSteps)
    wild          \* number of out-of-tape accesses the run has survived

vars == <<program, phase, bytecode, i, exit_code, err, loop_starts, memory,
          ptr, pc, out, input, eof, steps, wild>>

(***************************************************************************)
(* Bounds of the model.                                                    *)
(***************************************************************************)
MaxLen == 4        \* longest program drawn from the full character set
MaxTokens == 6     \* longest program drawn as a sequence of idiom tokens
MaxBrackets == 6   \* longest program drawn from brackets, + and -
MaxRun == 4        \* longest plain run of one character (besides the wrap cases)
MaxSteps == 40     \* interpreter iterations explored per run
MaxInput == 2      \* bytes std::cin delivers before end of file
MaxWild == 1       \* out-of-tape accesses followed per run
MaxNest == 8       \* deepest nesting of cancelling runs
MaxFactor == 2     \* largest origin value and factor of a multiply loop
MaxShift == 2      \* largest pointer shift of a multiply loop
MaxInert == 3      \* idioms in a text into which a non-command is inserted

(***************************************************************************)
(* Program constants.                                                      *)
(***************************************************************************)
TapeSize == 30000  \* cells of the tape
Passes == 7        \* optimize_bytecode passes main runs
EOF == -1          \* what std::cin.get() returns at end of file

Byte == 0 .. 255

\* Variant of ToByte that saturates instead of wrapping.
ToByteSaturating(v) == IF v > 255 THEN 255 ELSE IF v < 0 THEN 0 ELSE v

\* Conversion of an int to unsigned char (lines 190, 191 and 198).
ToByte(v) == v % 256

\* size_t arithmetic is modulo 2^64.  ptr is kept as the signed representative
\* of its residue: a negative ptr stands for the wrapped value 2^64 + ptr.  The
\* magnitudes reached within MaxSteps iterations stay far below 2^63, so the
\* representative is exact.
InBounds(idx) == 0 <= idx /\ idx < TapeSize

Instr(o, v) == [op |-> o, value |-> v]

(***************************************************************************)
(* compile_to_bytecode                                                     *)
(***************************************************************************)
Folded == {">", "<", "+", "-", ".", ","}

OpOf(cmd) ==
    CASE cmd = ">" -> "INC_PTR"
      [] cmd = "<" -> "DEC_PTR"
      [] cmd = "+" -> "INC_VAL"
      [] cmd = "-" -> "DEC_VAL"
      [] cmd = "." -> "OUTPUT"
      [] cmd = "," -> "INPUT"

\* The inner while loops: count of the run of cmd that starts at index k.
RunCount(prog, k, cmd) ==
    LET stop == {j \in (k + 1) .. (Len(prog) - 1) : prog[j + 1] # cmd}
        end  == IF stop = {} THEN Len(prog)
                ELSE CHOOSE j \in stop : \A h \in stop : j <= h
    IN  end - k

CompileResult(ok, bracket, position, code) ==
    [ok |-> ok, bracket |-> bracket, position |-> position, bytecode |-> code]

\* loop_stack.top() in the final check: the value pushed at line 88.
UnclosedPosition(loop_stack) == loop_stack[Len(loop_stack)]

\* The '[' case: the `[-]` capture or a LOOP_START.
IsZeroIdiom(prog, k) ==
    k + 2 < Len(prog) /\ prog[k + 2] = "-" /\ prog[k + 3] = "]"

\* Variant of FinalCheck that omits the check after the scan.
FinalCheckOmitted(loop_stack, code) == CompileResult(TRUE, "", 0, code)

\* Lines 100-104: the check after the scan.
FinalCheck(loop_stack, code) ==
    IF loop_stack # <<>>
    THEN CompileResult(FALSE, "[", UnclosedPosition(loop_stack), code)
    ELSE CompileResult(TRUE, "", 0, code)

RECURSIVE CompileFrom(_, _, _, _)
CompileFrom(prog, k, code, loop_stack) ==
    IF k >= Len(prog)
    THEN FinalCheck(loop_stack, code)
    ELSE LET cmd == prog[k + 1] IN
         CASE cmd \in Folded ->
                LET count == RunCount(prog, k, cmd)
                IN  CompileFrom(prog, k + count,
                                Append(code, Instr(OpOf(cmd), count)), loop_stack)
           [] cmd = "[" ->
                IF IsZeroIdiom(prog, k)
                THEN CompileFrom(prog, k + 3, Append(code, Instr("SET_ZERO", 1)),
                                 loop_stack)
                ELSE CompileFrom(prog, k + 1, Append(code, Instr("LOOP_START", 0)),
                                 Append(loop_stack, Len(code)))
           [] cmd = "]" ->
                IF loop_stack = <<>>
                THEN CompileResult(FALSE, "]", k, Append(code, Instr("LOOP_END", 0)))
                ELSE CompileFrom(prog, k + 1, Append(code, Instr("LOOP_END", 0)),
                                 SubSeq(loop_stack, 1, Len(loop_stack) - 1))
           [] OTHER -> CompileFrom(prog, k + 1, code, loop_stack)

compile_to_bytecode(prog) == CompileFrom(prog, 0, <<>>, <<>>)

(***************************************************************************)
(* optimize_bytecode: one pass                                             *)
(***************************************************************************)
ValueOps == {"INC_VAL", "DEC_VAL"}
PointerOps == {"INC_PTR", "DEC_PTR"}

\* (op == INC) ? value : -value
Signed(instr, inc) == IF instr.op = inc THEN instr.value ELSE 0 - instr.value

\* Index of the last instruction the while loops at lines 116 and 130 consume:
\* the run of instructions with an op in ops that starts at index k.
RunEnd(code, k, ops) ==
    LET stop == {j \in (k + 1) .. (Len(code) - 1) : code[j + 1].op \notin ops}
    IN  IF stop = {} THEN Len(code) - 1
        ELSE (CHOOSE j \in stop : \A h \in stop : j <= h) - 1

\* Variant of Modification that keeps the last instruction's value only.
ModificationLast(code, k, last, inc) == Signed(code[last + 1], inc)

\* modification: the signed sum over the instructions k .. last.
RECURSIVE Modification(_, _, _, _)
Modification(code, k, last, inc) ==
    IF k > last THEN 0
    ELSE Signed(code[k + 1], inc) + Modification(code, k + 1, last, inc)

\* Variant of PushNet that pushes an instruction for a zero sum too.
PushNetKeepZero(optimized, inc, dec, modification) ==
    IF modification >= 0 THEN Append(optimized, Instr(inc, modification))
    ELSE Append(optimized, Instr(dec, 0 - modification))

\* The push_back of lines 120-123 and 134-137: nothing when the sum is zero.
PushNet(optimized, inc, dec, modification) ==
    IF modification > 0 THEN Append(optimized, Instr(inc, modification))
    ELSE IF modification < 0 THEN Append(optimized, Instr(dec, 0 - modification))
    ELSE optimized

\* Variant of IsZeroLoop that accepts any decrement.
IsZeroLoopAnyDecrement(code, k) ==
    /\ k + 2 < Len(code)
    /\ code[k + 1].op = "LOOP_START"
    /\ code[k + 2].op = "DEC_VAL"
    /\ code[k + 3].op = "LOOP_END"

\* Variant of IsZeroLoop that does not look at the third instruction.
IsZeroLoopNoEnd(code, k) ==
    /\ k + 2 < Len(code)
    /\ code[k + 1].op = "LOOP_START"
    /\ code[k + 2].op = "DEC_VAL"
    /\ code[k + 2].value = 1

\* The condition of lines 141-144.
IsZeroLoop(code, k) ==
    /\ k + 2 < Len(code)
    /\ code[k + 1].op = "LOOP_START"
    /\ code[k + 1].value = code[k + 3].value
    /\ code[k + 2].op = "DEC_VAL"
    /\ code[k + 2].value = 1
    /\ code[k + 3].op = "LOOP_END"

\* The condition of line 151.
IsClearRun(code, k) == k + 1 < Len(code) /\ code[k + 1].op = "SET_ZERO"

\* Lines 152-157: what a run of clear_count SET_ZERO instructions ending at
\* index last becomes.
PushClear(optimized, code, last, clear_count) ==
    IF clear_count > 1
    THEN Append(optimized, Instr("CLEAR_RANGE", clear_count))
    ELSE Append(optimized, code[last + 1])

RECURSIVE OptimizeFrom(_, _, _)
OptimizeFrom(code, k, optimized) ==
    IF k >= Len(code) THEN optimized
    ELSE IF code[k + 1].op \in ValueOps
    THEN LET last == RunEnd(code, k, ValueOps)
         IN  OptimizeFrom(code, last + 1,
                 PushNet(optimized, "INC_VAL", "DEC_VAL",
                         Modification(code, k, last, "INC_VAL")))
    ELSE IF code[k + 1].op \in PointerOps
    THEN LET last == RunEnd(code, k, PointerOps)
         IN  OptimizeFrom(code, last + 1,
                 PushNet(optimized, "INC_PTR", "DEC_PTR",
                         Modification(code, k, last, "INC_PTR")))
    ELSE IF IsZeroLoop(code, k)
    THEN OptimizeFrom(code, k + 3, Append(optimized, Instr("SET_ZERO", 0)))
    ELSE IF IsClearRun(code, k)
    THEN LET last == RunEnd(code, k, {"SET_ZERO"})
         IN  OptimizeFrom(code, last + 1,
                          PushClear(optimized, code, last, last - k + 1))
    ELSE OptimizeFrom(code, k + 1, Append(optimized, code[k + 1]))

optimize_bytecode(code) == OptimizeFrom(code, 0, <<>>)

\* main, lines 248-250: the stream after n passes over the compiled stream.
RECURSIVE OptimizeTimes(_, _)
OptimizeTimes(code, n) ==
    IF n = 0 THEN code ELSE optimize_bytecode(OptimizeTimes(code, n - 1))

(***************************************************************************)
(* interpret_bytecode                                                      *)
(***************************************************************************)
\* Lines 170-183: the jump table.  loop_stack.top() on an empty stack is
\* undefined behaviour, reported as ok = FALSE.
\* Variant of Link that records the forward entry only.
LinkForwardOnly(table, start, k) == [table EXCEPT ![start + 1] = k]

\* Lines 180-181: the two entries of a matched pair.
Link(table, start, k) == [table EXCEPT ![start + 1] = k, ![k + 1] = start]

RECURSIVE ResolveFrom(_, _, _, _)
ResolveFrom(code, k, loop_stack, table) ==
    IF k >= Len(code)
    THEN [ok |-> TRUE, loop_starts |-> table, loop_stack |-> loop_stack]
    ELSE IF code[k + 1].op = "LOOP_START"
    THEN ResolveFrom(code, k + 1, Append(loop_stack, k), table)
    ELSE IF code[k + 1].op = "LOOP_END"
    THEN IF loop_stack = <<>>
         THEN [ok |-> FALSE, loop_starts |-> table, loop_stack |-> loop_stack]
         ELSE LET start == loop_stack[Len(loop_stack)]
              IN  ResolveFrom(code, k + 1,
                              SubSeq(loop_stack, 1, Len(loop_stack) - 1),
                              Link(table, start, k))
    ELSE ResolveFrom(code, k + 1, loop_stack, table)

Resolve(code) == ResolveFrom(code, 0, <<>>, [k \in 1 .. Len(code) |-> 0])

\* memory[idx] as an rvalue.  Inside the tape a cell never stored holds the 0 of
\* line 168; outside the tape the read is undefined and yields the byte g.
Load(mem, idx, g) ==
    IF InBounds(idx) THEN (IF idx \in DOMAIN mem THEN mem[idx] ELSE 0) ELSE g

\* Variant of Store that also zeroes the cell after idx.
StoreClearingNext(mem, idx, v) ==
    [k \in DOMAIN mem \cup {idx, idx + 1} |->
        IF k = idx THEN v ELSE IF k = idx + 1 THEN 0 ELSE mem[k]]

\* memory[idx] = v.  A store outside the tape does not change the tape.
Store(mem, idx, v) ==
    IF InBounds(idx)
    THEN [k \in DOMAIN mem \cup {idx} |-> IF k = idx THEN v ELSE mem[k]]
    ELSE mem

\* Lines 202-203: memory[p + j] = 0 for j in 0 .. n-1.
ClearCells(mem, p, n) ==
    LET cells == {k \in p .. (p + n - 1) : InBounds(k)}
    IN  [k \in DOMAIN mem \cup cells |-> IF k \in cells THEN 0 ELSE mem[k]]

\* The tape indices the instruction reads or writes with the pointer at p.
Accessed(instr, p) ==
    IF instr.op \in PointerOps THEN {}
    ELSE IF instr.op = "CLEAR_RANGE" THEN p .. (p + instr.value - 1)
    ELSE {p}

Defined(instr, p) == \A k \in Accessed(instr, p) : InBounds(k)

Machine(mem, p, c, o) == [memory |-> mem, ptr |-> p, pc |-> c, out |-> o]

\* Variant of InputValue that keeps the first read instead of the last.
InputValueFirst(reads) == ToByte(reads[1])

\* Lines 197-198: each read overwrites the cell, so the last one stays.
InputValue(reads) == ToByte(reads[Len(reads)])

\* Variant of JumpIfZero with the test inverted.
JumpIfZeroInverted(table, c, cell) == IF cell # 0 THEN table[c + 1] ELSE c

\* Lines 207-208: pc after the LOOP_START case, before ++pc.
JumpIfZero(table, c, cell) == IF cell = 0 THEN table[c + 1] ELSE c

\* Lines 211-212: pc after the LOOP_END case, before ++pc.
JumpIfNonZero(table, c, cell) == IF cell # 0 THEN table[c + 1] - 1 ELSE c

\* One iteration of the loop at lines 185-215 on machine s: the switch, then
\* ++pc.  reads holds what the std::cin.get() calls of an INPUT return, g the
\* byte an out-of-tape read yields.
Execute(code, table, s, reads, g) ==
    LET instr == code[s.pc + 1]
        cell  == Load(s.memory, s.ptr, g)
    IN  CASE instr.op = "INC_PTR" ->
               Machine(s.memory, s.ptr + instr.value, s.pc + 1, s.out)
          [] instr.op = "DEC_PTR" ->
               Machine(s.memory, s.ptr - instr.value, s.pc + 1, s.out)
          [] instr.op = "INC_VAL" ->
               Machine(Store(s.memory, s.ptr, ToByte(cell + instr.value)),
                       s.ptr, s.pc + 1, s.out)
          [] instr.op = "DEC_VAL" ->
               Machine(Store(s.memory, s.ptr, ToByte(cell - instr.value)),
                       s.ptr, s.pc + 1, s.out)
          [] instr.op = "OUTPUT" ->
               Machine(s.memory, s.ptr, s.pc + 1,
                       s.out \o [j \in 1 .. instr.value |-> cell])
          [] instr.op = "INPUT" ->
               Machine(Store(s.memory, s.ptr, InputValue(reads)),
                       s.ptr, s.pc + 1, s.out)
          [] instr.op = "SET_ZERO" ->
               Machine(Store(s.memory, s.ptr, 0), s.ptr, s.pc + 1, s.out)
          [] instr.op = "CLEAR_RANGE" ->
               Machine(ClearCells(s.memory, s.ptr, instr.value),
                       s.ptr + instr.value, s.pc + 1, s.out)
          [] instr.op = "LOOP_START" ->
               Machine(s.memory, s.ptr, JumpIfZero(table, s.pc, cell) + 1, s.out)
          [] instr.op = "LOOP_END" ->
               Machine(s.memory, s.ptr, JumpIfNonZero(table, s.pc, cell) + 1, s.out)

(***************************************************************************)
(* The programs and the input bytes the model draws.                       *)
(***************************************************************************)
Commands == Folded \cup {"[", "]"}
Chars == Commands \cup {"x"}          \* "x": a character that is no command

SeqsUpTo(S, n) == UNION {[1 .. k -> S] : k \in 0 .. n}

Repeat(c, n) == [k \in 1 .. n |-> c]

RECURSIVE Concat(_)
Concat(seqs) == IF seqs = <<>> THEN <<>> ELSE Head(seqs) \o Concat(Tail(seqs))

\* Every text of at most MaxLen characters.
ShortPrograms == SeqsUpTo(Chars, MaxLen)

\* Texts built from whole idioms, to reach longer programs.
Tokens == {<<"+">>, <<">">>, <<"<">>, <<".">>, <<"[", "-", "]">>}
TokenPrograms == {Concat(ts) : ts \in SeqsUpTo(Tokens, MaxTokens)}

\* Texts of brackets and value changes, to reach deeper nesting.
BracketChars == {"[", "]", "+", "-"}
BracketPrograms == SeqsUpTo(BracketChars, MaxBrackets)

\* Plain runs of + or -, with the lengths around the 8-bit wrap.
WrapRuns == {255, 256, 257, 512}
RunPrograms ==
    {Repeat(c, n) : c \in {"+", "-"}, n \in (1 .. MaxRun) \cup WrapRuns}

\* run.sh, line 60: testcase "scrub right".
ScrubRight ==
    <<">", "+", ">", "-", ">", "-", ">", "+", "<", "[", "[", "-", "]", "<", "]", ".", ">", ".", ">", ".", ">", ".", ">", ".">>

\* Cancelling runs nested d deep: >+>+ ... -<-<, each pair of a command and
\* its inverse enclosing the next.
CancelProgram(d) ==
    [k \in 1 .. 2 * d |->
        IF k <= d
        THEN (IF (d - k + 1) % 2 = 1 THEN "+" ELSE ">")
        ELSE (IF (k - d) % 2 = 1 THEN "-" ELSE "<")]
CancelPrograms == {CancelProgram(d) : d \in 1 .. MaxNest}

\* a '+', then the loop [- >..> +..+ <..<] with shift d and factor m, then '.'.
MultiplyProgram(a, d, m) ==
    Repeat("+", a) \o <<"[", "-">> \o Repeat(">", d) \o Repeat("+", m)
        \o Repeat("<", d) \o <<"]", ".">>
MultiplyPrograms ==
    {MultiplyProgram(a, d, m) : a \in 1 .. MaxFactor, d \in 1 .. MaxShift,
                                m \in 1 .. MaxFactor}

\* Texts of idioms with one non-command character inserted at any place.
InsertAt(prog, k, c) == SubSeq(prog, 1, k) \o <<c>> \o SubSeq(prog, k + 1, Len(prog))
InertPrograms ==
    UNION {{InsertAt(Concat(ts), k, "x") : k \in 0 .. Len(Concat(ts))} :
              ts \in SeqsUpTo(Tokens, MaxInert)}

\* Every cell value, then the zero idiom: captured by the compiler, or left
\* to the optimizer by a non-command character.
ZeroLoopPrograms ==
    {Repeat("+", v) \o z : v \in Byte,
                           z \in {<<"[", "-", "]">>, <<"[", "x", "-", "]">>}}

Programs ==
    ShortPrograms \cup TokenPrograms \cup BracketPrograms \cup RunPrograms
        \cup {ScrubRight} \cup CancelPrograms \cup MultiplyPrograms
        \cup InertPrograms \cup ZeroLoopPrograms

InputBytes == {0, 65, 255}    \* the bytes std::cin may deliver
Garbage == {0, 1, 255}        \* the bytes an out-of-tape read may yield

(***************************************************************************)
(* main                                                                    *)
(***************************************************************************)
NoError == [bracket |-> "", position |-> 0]

Init ==
    /\ program \in Programs
    /\ phase = "compile"
    /\ bytecode = <<>>
    /\ i = 0
    /\ exit_code = 0
    /\ err = NoError
    /\ loop_starts = <<>>
    /\ memory = <<>>
    /\ ptr = 0
    /\ pc = 0
    /\ out = <<>>
    /\ input = <<>>
    /\ eof = FALSE
    /\ steps = 0
    /\ wild = 0

\* Line 248, compile_to_bytecode returns.
Compile ==
    /\ phase = "compile"
    /\ compile_to_bytecode(program).ok
    /\ bytecode' = compile_to_bytecode(program).bytecode
    /\ phase' = "optimize"
    /\ UNCHANGED <<program, i, exit_code, err, loop_starts, memory, ptr, pc, out,
                   input, eof, steps, wild>>

\* Line 248, compile_to_bytecode reports an unmatched bracket and calls exit(1).
CompileError ==
    /\ phase = "compile"
    /\ ~compile_to_bytecode(program).ok
    /\ err' = [bracket |-> compile_to_bytecode(program).bracket,
               position |-> compile_to_bytecode(program).position]
    /\ phase' = "exit"
    /\ exit_code' = 1
    /\ UNCHANGED <<program, bytecode, i, loop_starts, memory, ptr, pc, out, input,
                   eof, steps, wild>>

\* Lines 249-250, one iteration of the optimisation loop.
Optimize ==
    /\ phase = "optimize"
    /\ i < Passes
    /\ bytecode' = optimize_bytecode(bytecode)
    /\ i' = i + 1
    /\ UNCHANGED <<program, phase, exit_code, err, loop_starts, memory, ptr, pc,
                   out, input, eof, steps, wild>>

\* Line 270 and lines 168-183: interpret_bytecode is entered, the tape is
\* allocated and the jump table computed.
Interpret ==
    /\ phase = "optimize"
    /\ i = Passes
    /\ LET r == Resolve(bytecode)
       IN  /\ loop_starts' = r.loop_starts
           /\ phase' = IF r.ok THEN "run" ELSE "crashed"
    /\ memory' = <<>>
    /\ ptr' = 0
    /\ pc' = 0
    /\ UNCHANGED <<program, bytecode, i, exit_code, err, out, input, eof, steps, wild>>

Running == phase = "run" /\ pc < Len(bytecode) /\ steps < MaxSteps

Current == Machine(memory, ptr, pc, out)

Becomes(s) ==
    /\ memory' = s.memory
    /\ ptr' = s.ptr
    /\ pc' = s.pc
    /\ out' = s.out
    /\ steps' = steps + 1

\* What n calls of std::cin.get() (line 198) can return: k more bytes, then
\* EOF for the rest; once at end of file, EOF every time.
ReadOutcomes(n) ==
    IF eof
    THEN {[reads |-> [j \in 1 .. n |-> EOF], input |-> input, eof |-> TRUE]}
    ELSE LET room == MaxInput - Len(input)
             most == IF n < room THEN n ELSE room
         IN  {[reads |-> bytes \o [j \in 1 .. (n - Len(bytes)) |-> EOF],
               input |-> input \o bytes,
               eof   |-> Len(bytes) < n] : bytes \in SeqsUpTo(InputBytes, most)}

\* Lines 185-215, an iteration that reads no input and stays inside the tape.
Step ==
    /\ Running
    /\ bytecode[pc + 1].op # "INPUT"
    /\ Defined(bytecode[pc + 1], ptr)
    /\ Becomes(Execute(bytecode, loop_starts, Current, <<>>, 0))
    /\ UNCHANGED <<program, phase, bytecode, i, exit_code, err, loop_starts,
                   input, eof, wild>>

\* Lines 196-199, INPUT with the pointer inside the tape.
StepInput ==
    /\ Running
    /\ bytecode[pc + 1].op = "INPUT"
    /\ Defined(bytecode[pc + 1], ptr)
    /\ \E r \in ReadOutcomes(bytecode[pc + 1].value) :
          /\ Becomes(Execute(bytecode, loop_starts, Current, r.reads, 0))
          /\ input' = r.input
          /\ eof' = r.eof
    /\ UNCHANGED <<program, phase, bytecode, i, exit_code, err, loop_starts, wild>>

\* An iteration whose memory[...] lies outside the tape: undefined behaviour.
\* The access faults and the process dies, or it goes through on whatever lies
\* beyond the tape.
StepOutOfBounds ==
    /\ Running
    /\ ~Defined(bytecode[pc + 1], ptr)
    /\ wild < MaxWild
    /\ \/ /\ phase' = "crashed"
          /\ UNCHANGED <<memory, ptr, pc, out, input, eof, steps, wild>>
       \/ /\ \E g \in Garbage :
                \E r \in ReadOutcomes(IF bytecode[pc + 1].op = "INPUT"
                                      THEN bytecode[pc + 1].value ELSE 0) :
                   /\ Becomes(Execute(bytecode, loop_starts, Current, r.reads, g))
                   /\ input' = r.input
                   /\ eof' = r.eof
          /\ wild' = wild + 1
          /\ UNCHANGED phase
    /\ UNCHANGED <<program, bytecode, i, exit_code, err, loop_starts>>

\* Lines 185 and 272: the loop ends, main returns 0.
Finish ==
    /\ phase = "run"
    /\ pc >= Len(bytecode)
    /\ phase' = "exit"
    /\ exit_code' = 0
    /\ UNCHANGED <<program, bytecode, i, err, loop_starts, memory, ptr, pc, out,
                   input, eof, steps, wild>>

Next ==
    \/ Compile
    \/ CompileError
    \/ Optimize
    \/ Interpret
    \/ Step
    \/ StepInput
    \/ StepOutOfBounds
    \/ Finish

Spec == Init /\ [][Next]_vars

(***************************************************************************)
(* Execution of a stream outside the pipeline, for comparing streams.      *)
(***************************************************************************)
\* What the std::cin.get() calls of an INPUT of n reads return when `used`
\* bytes of the text inp have been consumed: the next bytes, then EOF.
ReadsOf(inp, used, n) ==
    [j \in 1 .. n |-> IF used + j <= Len(inp) THEN inp[used + j] ELSE EOF]

\* interpret_bytecode run on code from machine s with std::cin holding inp
\* (followed by end of file when ended), for at most fuel iterations.  status
\* is "exit" when the loop ended, "running" when the fuel ran out, "undefined"
\* at an out-of-tape access and "starved" when the run needs bytes of std::cin
\* that are not known.
RECURSIVE RunFrom(_, _, _, _, _, _, _)
RunFrom(code, table, s, inp, ended, used, fuel) ==
    IF s.pc >= Len(code) THEN [status |-> "exit", machine |-> s]
    ELSE IF fuel = 0 THEN [status |-> "running", machine |-> s]
    ELSE IF ~Defined(code[s.pc + 1], s.ptr) THEN [status |-> "undefined", machine |-> s]
    ELSE IF code[s.pc + 1].op = "INPUT"
    THEN LET n == code[s.pc + 1].value
         IN  IF ~ended /\ used + n > Len(inp)
             THEN [status |-> "starved", machine |-> s]
             ELSE RunFrom(code, table,
                          Execute(code, table, s, ReadsOf(inp, used, n), 0),
                          inp, ended,
                          IF used + n <= Len(inp) THEN used + n ELSE Len(inp),
                          fuel - 1)
    ELSE RunFrom(code, table, Execute(code, table, s, <<>>, 0),
                 inp, ended, used, fuel - 1)

\* interpret_bytecode(code) on a fresh tape.
Run(code, inp, ended) ==
    RunFrom(code, Resolve(code).loop_starts, Machine(<<>>, 0, 0, <<>>),
            inp, ended, 0, MaxSteps)

\* n iterations of interpret_bytecode's loop on code from machine s, fewer if
\* the loop ends before; for streams without INPUT that stay inside the tape.
RECURSIVE Iterate(_, _, _, _)
Iterate(code, table, s, n) ==
    IF n = 0 \/ s.pc >= Len(code) THEN s
    ELSE IF n = 1 THEN Execute(code, table, s, <<>>, 0)
    ELSE LET half == Iterate(code, table, s, n \div 2)
         IN  Iterate(code, table, half, n - (n \div 2))

(***************************************************************************)
(* The `[->+<]` rule of the variant src/unnamed/part_000, which main of      *)
(* neither variant reaches: brainfuck.cpp has no such rule, and part_000    *)
(* never calls its optimize_bytecode.                                      *)
(***************************************************************************)
\* part_000 lines 150-153: the test made at a LOOP_START at index k.
AddSubtractPattern(code, k) ==
    /\ k + 6 < Len(code)
    /\ code[k + 2].op = "DEC_VAL"
    /\ code[k + 3].op = "INC_PTR"
    /\ code[k + 4].op = "INC_VAL"
    /\ code[k + 5].op = "DEC_PTR"
    /\ code[k + 6].op = "LOOP_END"

\* part_000 line 155: the operand of the ADD_SUBTRACT_LOOP pushed.
AddSubtractValue(code, k) == code[k + 4].value

\* part_000 lines 201-206, case ADD_SUBTRACT_LOOP with operand value: the
\* tape it leaves (all cells touched inside the tape).
AddSubtractLoop(mem, p, value) ==
    [k \in DOMAIN mem \cup (p .. p + value) |->
        IF k = p THEN 0
        ELSE IF k \in (p + 1) .. (p + value)
        THEN ToByte(Load(mem, k, 0) + Load(mem, p, 0))
        ELSE mem[k]]

(***************************************************************************)
(* Helpers of the properties.                                              *)
(***************************************************************************)
CountOp(code, o) == Cardinality({k \in 1 .. Len(code) : code[k].op = o})

\* Two SET_ZERO instructions next to each other: no pointer move between them.
AdjacentSetZero(code) ==
    \E k \in 1 .. (Len(code) - 1) : code[k].op = "SET_ZERO" /\ code[k + 1].op = "SET_ZERO"

\* A SET_ZERO right after a pointer advance of exactly one cell.
AdvancedSetZero(code) ==
    \E k \in 1 .. (Len(code) - 1) :
        code[k] = Instr("INC_PTR", 1) /\ code[k + 1].op = "SET_ZERO"

\* An interpreter iteration is taken in this step.
Iteration == phase = "run" /\ steps' = steps + 1

AtOp(o) == phase = "run" /\ pc < Len(bytecode) /\ bytecode[pc + 1].op = o

CurrentCell == Load(memory, ptr, 0)

(***************************************************************************)
(* Properties.                                                             *)
(***************************************************************************)

\* C1 -- Optimizer transparency: when the pipeline has run the optimized
\* stream of a program to completion, running the stream compile_to_bytecode
\* returned on the same input to completion gives the same output bytes.
C1_OptimizerTransparency ==
    (phase = "exit" /\ exit_code = 0 /\ wild = 0) =>
        LET raw == Run(compile_to_bytecode(program).bytecode, input, eof)
        IN  raw.status = "exit" => raw.machine.out = out

\* C2 -- Range-clear fusion needs a pointer advance: a pass over a stream in
\* which two SET_ZERO are adjacent (no pointer advance between them), and in
\* which no SET_ZERO follows a one-cell advance, creates no CLEAR_RANGE.
C2_NoFusionWithoutAdvance ==
    [][(/\ phase = "optimize"
        /\ i' = i + 1
        /\ AdjacentSetZero(bytecode)
        /\ ~AdvancedSetZero(bytecode))
       => CountOp(bytecode', "CLEAR_RANGE") = CountOp(bytecode, "CLEAR_RANGE")]_vars

\* C3 -- Bounds violation is fatal: the interpreter never continues (nor exits
\* normally) with the data pointer outside [0, TapeSize), and no access outside
\* the tape is ever made.
C3_BoundsViolationFatal ==
    /\ phase \in {"run", "exit"} => InBounds(ptr)
    /\ wild = 0
    /\ phase # "crashed"

\* An INPUT with the pointer inside the tape during which std::cin runs out.
InputExhausted == AtOp("INPUT") /\ InBounds(ptr) /\ Iteration /\ eof'

\* C4 (as claimed) -- Input exhaustion: an INPUT during which std::cin runs out
\* leaves 0 in the current cell.
C4_ExhaustedInputStoresZero ==
    [][InputExhausted => Load(memory', ptr, 0) = 0]_vars

\* C4 (amended) -- Input exhaustion: an INPUT during which std::cin runs out
\* leaves 255 (EOF converted to unsigned char) in the current cell, changes no
\* other cell, and execution continues at the next instruction.
C4_ExhaustedInputStores255 ==
    [][InputExhausted =>
          /\ Load(memory', ptr, 0) = 255
          /\ \A k \in (DOMAIN memory \cup DOMAIN memory') \ {ptr} :
                Load(memory', k, 0) = Load(memory, k, 0)
          /\ ptr' = ptr
          /\ pc' = pc + 1
          /\ phase' = "run"
          /\ out' = out]_vars

\* C4 witness: an INPUT has just run into end of file with the pointer inside
\* the tape, after std::cin had delivered a byte.
C4_Witness ==
    /\ phase = "run"
    /\ wild = 0
    /\ eof
    /\ input # <<>>
    /\ pc >= 1
    /\ bytecode[pc].op = "INPUT"
    /\ InBounds(ptr)
    /\ CurrentCell = 255

\* Number of '[' minus number of ']' among the characters a .. b (0-based).
Balance(prog, a, b) ==
    Cardinality({j \in a .. b : prog[j + 1] = "["})
        - Cardinality({j \in a .. b : prog[j + 1] = "]"})

\* Source indices of the ']' with no '[' open before them.
UnmatchedCloses(prog) ==
    {k \in 0 .. (Len(prog) - 1) : prog[k + 1] = "]" /\ Balance(prog, 0, k) < 0}

\* Source indices of the '[' that no later ']' closes.
UnclosedOpens(prog) ==
    {k \in 0 .. (Len(prog) - 1) :
        /\ prog[k + 1] = "["
        /\ \A b \in k .. (Len(prog) - 1) : Balance(prog, k, b) > 0}

\* The text has an unmatched ']' or an unclosed '['.
Malformed(prog) == UnmatchedCloses(prog) # {} \/ UnclosedOpens(prog) # {}

C6_PlusOpenAccepted ==
    (program = <<"+", "[">> /\ phase = "exit") => exit_code = 0

\* C7 -- Error position: the position reported with a structural error is the
\* source index of the offending bracket: of the first unmatched ']', or of an
\* unclosed '['.
C7_ErrorPositionInSource ==
    (phase = "exit" /\ exit_code = 1) =>
        /\ err.bracket = "]" =>
              /\ err.position \in UnmatchedCloses(program)
              /\ \A k \in UnmatchedCloses(program) : err.position <= k
        /\ err.bracket = "[" => err.position \in UnclosedOpens(program)

\* Net number of LOOP_START minus LOOP_END among instructions a .. b (0-based).
Nesting(code, a, b) ==
    Cardinality({j \in a .. b : code[j + 1].op = "LOOP_START"})
        - Cardinality({j \in a .. b : code[j + 1].op = "LOOP_END"})

Jumps(code) ==
    {k \in 0 .. (Len(code) - 1) : code[k + 1].op \in {"LOOP_START", "LOOP_END"}}

\* The structural partner of the LOOP_START at a: the first index at which the
\* nesting opened at a is closed again.
MatchingEnd(code, a) ==
    CHOOSE b \in a .. (Len(code) - 1) :
        /\ Nesting(code, a, b) = 0
        /\ \A c \in a .. (b - 1) : Nesting(code, a, c) > 0

\* The structural partner of the LOOP_END at b.
MatchingStart(code, b) ==
    CHOOSE a \in 0 .. b :
        /\ Nesting(code, a, b) = 0
        /\ \A c \in (a + 1) .. b : Nesting(code, c, b) < 0

\* C8 -- Bracket matching: in the stream the interpreter runs, the jump table
\* links every LOOP_START a to a later LOOP_END b with loop_starts[a] = b and
\* loop_starts[b] = a, b being the structural partner of a; every LOOP_END is
\* linked to a LOOP_START; no two jumps share a partner; pairs do not cross.
C8_BracketMatching ==
    phase = "run" =>
        /\ \A a \in Jumps(bytecode) :
              bytecode[a + 1].op = "LOOP_START" =>
                  LET b == loop_starts[a + 1]
                  IN  /\ a < b /\ b < Len(bytecode)
                      /\ bytecode[b + 1].op = "LOOP_END"
                      /\ loop_starts[b + 1] = a
                      /\ b = MatchingEnd(bytecode, a)
        /\ \A b \in Jumps(bytecode) :
              bytecode[b + 1].op = "LOOP_END" =>
                  LET a == loop_starts[b + 1]
                  IN  /\ 0 <= a /\ a < b
                      /\ bytecode[a + 1].op = "LOOP_START"
                      /\ loop_starts[a + 1] = b
        /\ \A a, b \in Jumps(bytecode) :
              a # b => loop_starts[a + 1] # loop_starts[b + 1]
        /\ \A a, c \in Jumps(bytecode) :
              (/\ bytecode[a + 1].op = "LOOP_START"
               /\ bytecode[c + 1].op = "LOOP_START"
               /\ a < c /\ c < loop_starts[a + 1])
              => loop_starts[c + 1] < loop_starts[a + 1]

\* C8 witness: the interpreter runs a stream with a loop nested in a loop and
\* has entered the inner loop.
C8_Witness ==
    /\ phase = "run"
    /\ \E a, c \in Jumps(bytecode) :
          /\ bytecode[a + 1].op = "LOOP_START"
          /\ bytecode[c + 1].op = "LOOP_START"
          /\ a < c /\ loop_starts[c + 1] < loop_starts[a + 1]
          /\ c < pc /\ pc < loop_starts[c + 1]

\* The memory and pointer are left alone by this step.
JumpFrame == memory' = memory /\ ptr' = ptr /\ out' = out /\ phase' = "run"

\* C9 (steps) -- Loop execution: a LOOP_START on a zero cell continues after its
\* matching LOOP_END, on a non-zero cell at the next instruction; a LOOP_END on
\* a non-zero cell goes back to its matching LOOP_START with the cell still
\* non-zero (so the body is entered again), on a zero cell to the next
\* instruction.  The cell tested is the one under the pointer.
LoopSteps ==
    /\ (AtOp("LOOP_START") /\ InBounds(ptr) /\ Iteration) =>
          /\ JumpFrame
          /\ pc' = IF CurrentCell = 0 THEN MatchingEnd(bytecode, pc) + 1 ELSE pc + 1
    /\ (AtOp("LOOP_END") /\ InBounds(ptr) /\ Iteration) =>
          /\ JumpFrame
          /\ pc' = IF CurrentCell # 0 THEN MatchingStart(bytecode, pc) ELSE pc + 1
          /\ CurrentCell # 0 =>
                /\ bytecode[pc' + 1].op = "LOOP_START"
                /\ Load(memory', ptr', 0) # 0

\* C9 (scenario) -- run.sh "scrub right".
ScrubRightOutput ==
    (program = ScrubRight /\ phase = "exit") =>
        exit_code = 0 /\ out = <<0, 0, 0, 0, 1>>

\* C9 -- Loop execution, steps and scenario together.
C9_LoopExecution == [][LoopSteps]_vars /\ []ScrubRightOutput

\* C9 witness: the scrub-right program has exited with its five output bytes.
C9_Witness ==
    program = ScrubRight /\ phase = "exit" /\ out = <<0, 0, 0, 0, 1>>

\* The text is a run of n >= 1 characters c and nothing else.
IsRun(prog, c) == Len(prog) >= 1 /\ \A k \in 1 .. Len(prog) : prog[k] = c

\* C10 -- Run-length correctness with wraparound: N consecutive '+' compile to
\* the single instruction INC_VAL N, and executing it leaves N mod 256 in cell
\* 0; N consecutive '-' compile to DEC_VAL N and leave (256 - N mod 256) mod
\* 256.
C10_RunLength ==
    LET n == Len(program) IN
    /\ (IsRun(program, "+") /\ phase = "optimize" /\ i = 0) =>
          bytecode = <<Instr("INC_VAL", n)>>
    /\ (IsRun(program, "+") /\ phase = "exit") =>
          /\ exit_code = 0 /\ steps = 1 /\ ptr = 0
          /\ CurrentCell = n % 256
          /\ n = 256 => CurrentCell = 0
          /\ n = 257 => CurrentCell = 1
          /\ n = 512 => CurrentCell = 0
    /\ (IsRun(program, "-") /\ phase = "optimize" /\ i = 0) =>
          bytecode = <<Instr("DEC_VAL", n)>>
    /\ (IsRun(program, "-") /\ phase = "exit") =>
          /\ exit_code = 0 /\ steps = 1 /\ ptr = 0
          /\ CurrentCell = (256 - (n % 256)) % 256

\* C10 witness: a run of 257 '+' has been executed and left 1.
C10_Witness ==
    /\ IsRun(program, "+")
    /\ Len(program) = 257
    /\ phase = "exit"
    /\ CurrentCell = 1

\* C11 -- Idempotence: once main's Passes passes have run, the stream is a
\* fixed point of optimize_bytecode: one more pass returns the same sequence.
C11_Idempotence ==
    (phase = "optimize" /\ i = Passes) => optimize_bytecode(bytecode) = bytecode

\* C12 -- Multiply-accumulate recognition: for a source made of an origin
\* value a and the loop [- >^d +^m <^d], (1) the optimizer replaces the loop,
\* so the stream main hands to the interpreter has no jump left, and (2) the
\* instruction the `[->+<]` rule puts in place of the loop leaves the tape the
\* loop leaves: a * m added to cell d, the origin zeroed.
C12_MultiplyAccumulate ==
    \A a \in 1 .. MaxFactor, d \in 1 .. MaxShift, m \in 1 .. MaxFactor :
        program = MultiplyProgram(a, d, m) =>
            /\ (phase = "optimize" /\ i = Passes) => Jumps(bytecode) = {}
            /\ phase = "exit" =>
                  LET code == compile_to_bytecode(program).bytecode
                      fused == AddSubtractLoop(0 :> a, 0, AddSubtractValue(code, 1))
                  IN  /\ AddSubtractPattern(code, 1)
                      /\ \A k \in 0 .. (MaxShift + MaxFactor) :
                            /\ Load(fused, k, 0) = Load(memory, k, 0)
                            /\ Load(memory, k, 0) =
                                  (IF k = d THEN ToByte(a * m) ELSE 0)

\* The text without its non-command characters.
Strip(prog) == SelectSeq(prog, LAMBDA c : c \in Commands)

Pass == phase = "optimize" /\ i' = i + 1

\* Indices (0-based) at which a maximal run of instructions with op in ops starts.
RunStarts(code, ops) ==
    {a \in 0 .. (Len(code) - 1) :
        code[a + 1].op \in ops /\ (a = 0 \/ code[a].op \notin ops)}

\* Index of the last instruction of the maximal run that starts at a.
RunLast(code, a, ops) ==
    CHOOSE b \in a .. (Len(code) - 1) :
        /\ \A j \in a .. b : code[j + 1].op \in ops
        /\ (b = Len(code) - 1 \/ code[b + 2].op \notin ops)

\* Sum of the operands of the instructions a .. b whose op is o.
Total(code, a, b, o) ==
    Cardinality(UNION {{j} \X (1 .. code[j + 1].value) :
                          j \in {h \in a .. b : code[h + 1].op = o}})

\* Net signed sum of the run that starts at a.
Net(code, a, inc, dec) ==
    LET b == RunLast(code, a, {inc, dec})
    IN  Total(code, a, b, inc) - Total(code, a, b, dec)

\* The instruction at a is a DEC_VAL 1 that is the whole body of a loop.
ZeroLoopBody(code, a) ==
    /\ a >= 1 /\ a + 1 < Len(code)
    /\ code[a].op = "LOOP_START"
    /\ code[a + 1] = Instr("DEC_VAL", 1)
    /\ code[a + 2].op = "LOOP_END"

\* The instructions of kind inc/dec of the stream after are, in order, one per
\* run of the stream before that starts in starts and has a non-zero net sum:
\* inc with the sum when it is positive, dec with its absolute value otherwise.
FusedRuns(before, after, starts, inc, dec) ==
    LET kept == {a \in starts : Net(before, a, inc, dec) # 0}
        nth(r) == CHOOSE a \in kept : Cardinality({b \in kept : b <= a}) = r
        net(r) == Net(before, nth(r), inc, dec)
    IN  SelectSeq(after, LAMBDA x : x.op \in {inc, dec})
          = [r \in 1 .. Cardinality(kept) |->
                IF net(r) > 0 THEN Instr(inc, net(r)) ELSE Instr(dec, 0 - net(r))]

\* The header comment's example, line 18.
PointerExample == <<">", ">", ">", "<", "<", ">">>

PointerExampleFused ==
    (program = PointerExample /\ phase = "optimize" /\ i >= 1) =>
        bytecode = <<Instr("INC_PTR", 2)>>

\* C14 (as claimed) -- Arithmetic and motion fusion: one pass replaces every
\* maximal run of INC_VAL/DEC_VAL (of INC_PTR/DEC_PTR) instructions by a single
\* instruction carrying the net signed sum, with a strictly positive operand,
\* and by nothing when the sum is zero; >>><<> ends as INC_PTR 2.
C14_EveryRunFused ==
    /\ [][Pass =>
            /\ FusedRuns(bytecode, bytecode', RunStarts(bytecode, ValueOps),
                         "INC_VAL", "DEC_VAL")
            /\ FusedRuns(bytecode, bytecode', RunStarts(bytecode, PointerOps),
                         "INC_PTR", "DEC_PTR")]_vars
    /\ []PointerExampleFused

\* C14 (amended) -- Arithmetic and motion fusion: the same, for every maximal
\* run other than a DEC_VAL 1 that is the whole body of a loop.
C14_RunsFused ==
    /\ [][Pass =>
            /\ FusedRuns(bytecode, bytecode',
                         {a \in RunStarts(bytecode, ValueOps) : ~ZeroLoopBody(bytecode, a)},
                         "INC_VAL", "DEC_VAL")
            /\ FusedRuns(bytecode, bytecode', RunStarts(bytecode, PointerOps),
                         "INC_PTR", "DEC_PTR")]_vars
    /\ []PointerExampleFused

\* C14 witness: the first pass has turned INC_PTR 3, DEC_PTR 2, INC_PTR 1, the
\* compiled >>><<>, into INC_PTR 2.
C14_Witness ==
    /\ program = PointerExample
    /\ phase = "optimize"
    /\ i = 1
    /\ bytecode = <<Instr("INC_PTR", 2)>>

\* The stream of [-] when the compiler does not capture it.
DecrementLoop == <<Instr("LOOP_START", 0), Instr("DEC_VAL", 1), Instr("LOOP_END", 0)>>

\* Indices k (1-based) of the loops LOOP_START, DEC_VAL d, LOOP_END of a stream.
DecrementLoops(code) ==
    {k \in 1 .. (Len(code) - 2) :
        /\ code[k].op = "LOOP_START"
        /\ code[k + 1].op = "DEC_VAL"
        /\ code[k + 2].op = "LOOP_END"}

\* Number of cells the SET_ZERO and CLEAR_RANGE instructions of a stream clear.
Cleared(code) == CountOp(code, "SET_ZERO") + Total(code, 0, Len(code) - 1, "CLEAR_RANGE")

\* A pass turns each loop LOOP_START, DEC_VAL 1, LOOP_END into a zeroing
\* instruction and no other loop; a loop LOOP_START, DEC_VAL d, LOOP_END with
\* d # 1 is in the output as it was.
ZeroLoopRewritten ==
    Pass =>
        LET zero == {k \in DecrementLoops(bytecode) : bytecode[k + 1].value = 1}
        IN  /\ CountOp(bytecode', "LOOP_START")
                  = CountOp(bytecode, "LOOP_START") - Cardinality(zero)
            /\ Cleared(bytecode') = Cleared(bytecode) + Cardinality(zero)
            /\ \A k \in DecrementLoops(bytecode) \ zero :
                  \E h \in 1 .. (Len(bytecode') - 2) :
                      SubSeq(bytecode', h, h + 2) = SubSeq(bytecode, k, k + 2)

\* Executing SET_ZERO leaves what running the decrement loop to completion from
\* the same tape, pointer and output leaves: the current cell 0, every other
\* cell, the pointer and the output as they were.
SetZeroAsLoop ==
    (AtOp("SET_ZERO") /\ InBounds(ptr) /\ Iteration) =>
        LET loop == Iterate(DecrementLoop, Resolve(DecrementLoop).loop_starts,
                            Machine(memory, ptr, 0, out), 3 * Cardinality(Byte))
        IN  /\ loop.pc = Len(DecrementLoop)
            /\ ptr' = loop.ptr /\ ptr' = ptr
            /\ out' = loop.out /\ out' = out
            /\ pc' = pc + 1
            /\ \A k \in DOMAIN memory \cup DOMAIN memory' \cup DOMAIN loop.memory :
                  /\ Load(memory', k, 0) = Load(loop.memory, k, 0)
                  /\ Load(memory', k, 0) = (IF k = ptr THEN 0 ELSE Load(memory, k, 0))

\* Number of places at which the text holds [-].
ZeroIdioms(prog) ==
    Cardinality({k \in 1 .. (Len(prog) - 2) : SubSeq(prog, k, k + 2) = <<"[", "-", "]">>})

\* compile_to_bytecode turns each [-] of the text into a SET_ZERO.
ZeroIdiomCaptured ==
    (phase = "optimize" /\ i = 0) => CountOp(bytecode, "SET_ZERO") = ZeroIdioms(program)

\* C15 -- Zero-loop recognition: the compiler's capture of [-] and the
\* optimizer's rewrite of LOOP_START, DEC_VAL 1, LOOP_END both yield SET_ZERO;
\* whatever the current cell holds, executing SET_ZERO leaves the tape, pointer
\* and output of the decrement loop run to completion; a loop whose body is
\* DEC_VAL k with k # 1 is not rewritten.
C15_ZeroLoop ==
    /\ [][ZeroLoopRewritten /\ SetZeroAsLoop]_vars
    /\ []ZeroIdiomCaptured

\* C15 witness: 255 '+' and a zero idiom the optimizer had to recognize have
\* been executed as INC_VAL 255, SET_ZERO, and the cell is 0.
C15_Witness ==
    /\ program = Repeat("+", 255) \o <<"[", "x", "-", "]">>
    /\ bytecode = <<Instr("INC_VAL", 255), Instr("SET_ZERO", 0)>>
    /\ phase = "exit"
    /\ steps = 2
    /\ CurrentCell = 0

\* No LOOP_END without a LOOP_START open before it, no LOOP_START left open.
WellNested(code) ==
    /\ \A b \in 0 .. (Len(code) - 1) : Nesting(code, 0, b) >= 0
    /\ Nesting(code, 0, Len(code) - 1) = 0

\* The ops of the instructions at the indices (0-based) in keep, in order.
OpsAt(code, keep) ==
    LET nth(r) == CHOOSE a \in keep : Cardinality({b \in keep : b <= a}) = r
    IN  [r \in 1 .. Cardinality(keep) |-> code[nth(r) + 1].op]

\* Indices (0-based) of the two jumps of each LOOP_START, DEC_VAL 1, LOOP_END.
ZeroLoopJumps(code) ==
    UNION {{k - 1, k + 1} : k \in {h \in DecrementLoops(code) : code[h + 1].value = 1}}

\* A pass keeps a well-nested stream well-nested, adds no jump, and leaves the
\* jumps of every loop it does not replace as a whole in their order, so that
\* the surviving loops nest as before.
NestingKept ==
    Pass =>
        /\ WellNested(bytecode) => WellNested(bytecode')
        /\ CountOp(bytecode', "LOOP_START") <= CountOp(bytecode, "LOOP_START")
        /\ CountOp(bytecode', "LOOP_END") <= CountOp(bytecode, "LOOP_END")
        /\ OpsAt(bytecode', Jumps(bytecode'))
              = OpsAt(bytecode, Jumps(bytecode) \ ZeroLoopJumps(bytecode))

\* Every stream main holds after compiling is well-nested, and the scan of
\* lines 174-183 over it never pops an empty stack and ends with an empty one:
\* the process never dies in the scan, only in a later iteration.
ResolvableStreams ==
    /\ phase \in {"optimize", "run"} =>
          /\ WellNested(bytecode)
          /\ Resolve(bytecode).ok
          /\ Resolve(bytecode).loop_stack = <<>>
    /\ phase = "crashed" => steps > 0

\* C16 -- Nesting is preserved by every optimizer pass: a well-nested stream
\* stays well-nested, no jump is added, surviving loops keep their relative
\* nesting; the jump-resolution scan never pops an empty stack and ends with an
\* empty stack for every stream reachable from a compiled program.
C16_NestingPreserved == [][NestingKept]_vars /\ []ResolvableStreams

\* C16 witness: the passes have removed the cancelling run inside the two
\* nested loops of [[+-]], and the interpreter has linked the four jumps left.
C16_Witness ==
    /\ program = <<"[", "[", "+", "-", "]", "]">>
    /\ phase = "run"
    /\ [k \in 1 .. Len(bytecode) |-> bytecode[k].op]
          = <<"LOOP_START", "LOOP_START", "LOOP_END", "LOOP_END">>
    /\ loop_starts = <<3, 2, 1, 0>>

\* The cells other than those in written hold after the step what they held.
CellsKept(written) ==
    \A k \in (DOMAIN memory \cup DOMAIN memory') \ written :
        Load(memory', k, 0) = Load(memory, k, 0)

\* An iteration on an instruction with op in ops whose accesses are in the tape.
Executes(ops) ==
    /\ phase = "run" /\ pc < Len(bytecode)
    /\ bytecode[pc + 1].op \in ops
    /\ Defined(bytecode[pc + 1], ptr)
    /\ Iteration

\* INC_PTR and DEC_PTR change the pointer only; INC_VAL, DEC_VAL, SET_ZERO and
\* INPUT change the current cell only; OUTPUT, LOOP_START and LOOP_END change
\* neither a cell nor the pointer; only OUTPUT adds to the output.
FrameSteps ==
    /\ Executes(PointerOps) =>
          /\ CellsKept({}) /\ out' = out /\ pc' = pc + 1
          /\ ptr' = ptr + Signed(bytecode[pc + 1], "INC_PTR")
    /\ Executes(ValueOps \cup {"SET_ZERO", "INPUT"}) =>
          CellsKept({ptr}) /\ ptr' = ptr /\ out' = out /\ pc' = pc + 1
    /\ Executes({"OUTPUT"}) =>
          /\ CellsKept({}) /\ ptr' = ptr /\ pc' = pc + 1
          /\ out' = out \o [j \in 1 .. bytecode[pc + 1].value |-> CurrentCell]
    /\ Executes({"LOOP_START", "LOOP_END"}) =>
          CellsKept({}) /\ ptr' = ptr /\ out' = out

\* interpret_bytecode starts on a tape of TapeSize cells that all hold 0, with
\* the pointer on cell 0.
TapeStartsZero ==
    (phase = "run" /\ steps = 0) =>
        /\ ptr = 0
        /\ InBounds(0) /\ InBounds(TapeSize - 1) /\ ~InBounds(TapeSize)
        /\ \A k \in DOMAIN memory \cup {0, 1, TapeSize - 1} : Load(memory, k, 0) = 0

\* run.sh line 53: a cell never written reads 0; and a value is still there
\* when the pointer has moved away, written another cell, and come back.
FrameExamples ==
    /\ (program = <<"+", ">", ".">> /\ phase = "exit") => out = <<0>>
    /\ (program = <<"+", ">", "+", "+", "<", ".">> /\ phase = "exit") => out = <<1>>

\* C17 -- Frame of interpreter steps: the tape starts as TapeSize cells all 0;
\* pointer moves leave every cell unchanged; value changes, SET_ZERO and INPUT
\* change only the current cell; OUTPUT and the jumps change neither tape nor
\* pointer; +>. outputs 0x00 and a value survives pointer moves away and back.
C17_Frame == [][FrameSteps]_vars /\ []TapeStartsZero /\ []FrameExamples

\* C17 witness: +>++<. has written cell 0, moved away, written cell 1, come
\* back and output the 1 of cell 0; cell 1 holds 2.
C17_Witness ==
    /\ program = <<"+", ">", "+", "+", "<", ".">>
    /\ phase = "exit"
    /\ out = <<1>>
    /\ ptr = 0
    /\ Load(memory, 1, 0) = 2

====
